---- MODULE Spec2Model ----
(***************************************************************************)
(* The slice value type of vm/src/builtins/slice.rs: PySlice (construction, *)
(* accessors, repr, indices, comparisons) and SaturatedSlice (with_slice,   *)
(* adjust_indices), with the helpers to_isize_index and saturate_index.     *)
(***************************************************************************)
EXTENDS Integers, Sequences, FiniteSets, TLC

VARIABLES sl, out, pc, todo, log, seqLen, lenSeen, sat

vars == <<sl, out, pc, todo, log, seqLen, lenSeen, sat>>

(***************************************************************************)
(* Bounds of the model.                                                     *)
(***************************************************************************)
\* width in bits of isize / usize in the model (64 on the real target)
Bits == 3
\* how far the integers offered as bounds reach outside [isize::MIN, isize::MAX]
Over == 2
\* integers offered as bounds to the object-level operations: -ObjInt..ObjInt
ObjInt == 1
\* lengths passed to slice.indices by the object-level operations: 0..MaxLen
MaxLen == 2
\* lengths the indexed sequence can have in the two-phase protocol: 0..MaxSeq
MaxSeq == 2

ISIZE_MAX == 2 ^ (Bits - 1) - 1
ISIZE_MIN == -(2 ^ (Bits - 1))
USIZE_MAX == 2 ^ Bits - 1

(***************************************************************************)
(* Values of the object model (PyObjectRef), as far as slices look at them. *)
(*   none : the None singleton                                              *)
(*   int  : a PyInt of arbitrary precision                                  *)
(*   idx  : an object that is no PyInt and whose __index__ is user code     *)
(*          returning n                                                     *)
(*   bad  : an object with no __index__                                     *)
(* Absent is Option::None of PySlice.start / PySlice.step.                  *)
(***************************************************************************)
PyNone == [k |-> "none", n |-> 0]
PyInt(n) == [k |-> "int", n |-> n]
PyIdx(n) == [k |-> "idx", n |-> n]
PyBad == [k |-> "bad", n |-> 0]
Absent == [k |-> "absent", n |-> 0]

\* PyResult: err = "" is Ok(v); otherwise the exception kind, v a placeholder
Ok(v) == [err |-> "", v |-> v]
Err(e, dflt) == [err |-> e, v |-> dflt]
\* vm.new_value_error / vm.new_type_error
ValueError == "ValueError"
TypeError == "TypeError"

\* Option<integer>
Some(n) == [some |-> TRUE, n |-> n]
Nothing == [some |-> FALSE, n |-> 0]

PySlice(a, b, c) == [start |-> a, stop |-> b, step |-> c]
NoSlice == PySlice(Absent, Absent, Absent)

(***************************************************************************)
(* PySlice: accessors.                                                      *)
(***************************************************************************)
\* Option<PyObjectRef>::into_pyobject
into_pyobject(o) == IF o = Absent THEN PyNone ELSE o

PySlice_start(s) == into_pyobject(s.start)
PySlice_stop(s) == s.stop
PySlice_step(s) == into_pyobject(s.step)

\* start_ref handing out the stored Option as it is
start_ref_raw(s) == s.start
start_ref(s) == IF s.start # Absent THEN s.start ELSE PyNone
step_ref(s) == IF s.step # Absent THEN s.step ELSE PyNone

is_none(o) == o = PyNone

(***************************************************************************)
(* PySlice::slot_new                                                        *)
(***************************************************************************)
\* slot_new binding a single argument as start
slot_new_start(args) ==
    IF Len(args) = 0
    THEN Err(TypeError, NoSlice)
    ELSE IF Len(args) = 1
    THEN Ok(PySlice(args[1], PyNone, Absent))
    ELSE IF Len(args) <= 3
    THEN Ok(PySlice(args[1], args[2], IF Len(args) = 3 THEN args[3] ELSE Absent))
    ELSE Err(TypeError, NoSlice)

slot_new(args) ==
    IF Len(args) = 0
    THEN Err(TypeError, NoSlice)
    ELSE IF Len(args) = 1
    THEN Ok(PySlice(Absent, args[1], Absent))
    ELSE IF Len(args) <= 3
    THEN Ok(PySlice(args[1], args[2], IF Len(args) = 3 THEN args[3] ELSE Absent))
    \* args.bind(vm)? has no place for a fourth positional argument
    ELSE Err(TypeError, NoSlice)

(***************************************************************************)
(* PySlice::inner_indices and PySlice::indices (the exact path)             *)
(***************************************************************************)
\* self.x(vm).try_into_value::<PyRef<PyInt>>(vm): a downcast, no __index__
try_into_int(o) == IF o.k = "int" THEN Ok(o.n) ELSE Err(TypeError, 0)

\* indices_bound clamping a negative bound to 0 whatever the direction
indices_bound_zero(b, length, lower, upper) ==
    IF b < 0
    THEN IF b + length < 0 THEN 0 ELSE b + length
    ELSE IF b > upper THEN upper ELSE b

\* the treatment of a start or stop that is an integer
indices_bound(b, length, lower, upper) ==
    IF b < 0
    THEN IF b + length < lower THEN lower ELSE b + length
    ELSE IF b > upper THEN upper ELSE b

Triple0 == <<0, 0, 0>>

inner_indices(s, length) ==
    LET stepR == IF is_none(step_ref(s)) THEN Ok(1) ELSE try_into_int(PySlice_step(s))
    IN  IF stepR.err # "" THEN Err(stepR.err, Triple0)
        ELSE IF stepR.v = 0 THEN Err(ValueError, Triple0)
        ELSE
        LET step == stepR.v
            backwards == step < 0
            lower == IF backwards THEN -1 ELSE 0
            upper == IF backwards THEN lower + length ELSE length
            startR == IF is_none(start_ref(s))
                      THEN Ok(IF backwards THEN upper ELSE lower)
                      ELSE LET t == try_into_int(PySlice_start(s))
                           IN  IF t.err # "" THEN t
                               ELSE Ok(indices_bound(t.v, length, lower, upper))
            stopR == IF is_none(s.stop)
                     THEN Ok(IF backwards THEN lower ELSE upper)
                     ELSE LET t == try_into_int(PySlice_stop(s))
                          IN  IF t.err # "" THEN t
                              ELSE Ok(indices_bound(t.v, length, lower, upper))
        IN  IF startR.err # "" THEN Err(startR.err, Triple0)
            ELSE IF stopR.err # "" THEN Err(stopR.err, Triple0)
            ELSE Ok(<<startR.v, stopR.v, step>>)

indices(s, length) ==
    IF length < 0 THEN Err(ValueError, Triple0) ELSE inner_indices(s, length)

(***************************************************************************)
(* Machine integers                                                         *)
(***************************************************************************)
\* BigInt::to_isize, isize::to_usize, usize::to_isize
to_isize(n) == IF n >= ISIZE_MIN /\ n <= ISIZE_MAX THEN Some(n) ELSE Nothing
to_usize(n) == IF n >= 0 /\ n <= USIZE_MAX THEN Some(n) ELSE Nothing
unwrap_or(o, d) == IF o.some THEN o.n ELSE d

\* isize arithmetic that wraps when the exact result does not fit
wrap(n) == ((n - ISIZE_MIN) % (2 ^ Bits)) + ISIZE_MIN
saturating_add(a, b) ==
    IF a + b > ISIZE_MAX THEN ISIZE_MAX
    ELSE IF a + b < ISIZE_MIN THEN ISIZE_MIN ELSE a + b
\* isize::abs in a build that wraps: abs(isize::MIN) = isize::MIN
wrapping_abs(a) == IF a < 0 THEN wrap(-a) ELSE a
saturating_abs(a) == IF a = ISIZE_MIN THEN ISIZE_MAX ELSE IF a < 0 THEN -a ELSE a

(***************************************************************************)
(* to_isize_index                                                           *)
(***************************************************************************)
\* vm.to_index_opt: None when the object has no __index__
to_index_opt(o) ==
    IF o.k \in {"int", "idx"} THEN Some(o.n) ELSE Nothing

to_isize_index(o) ==
    IF is_none(o) THEN Ok(Nothing)
    ELSE LET result == to_index_opt(o)
         IN  IF ~result.some THEN Err(TypeError, Nothing)
             ELSE Ok(Some(unwrap_or(to_isize(result.n),
                                    IF result.n < 0 THEN ISIZE_MIN ELSE ISIZE_MAX)))

(***************************************************************************)
(* saturate_index                                                           *)
(***************************************************************************)
\* saturate_index without its upper clamp
saturate_index_open(p, len) ==
    LET ilen == unwrap_or(to_isize(len), ISIZE_MAX)
    IN  IF p < 0
        THEN (IF wrap(p + ilen) < 0 THEN 0 ELSE wrap(p + ilen))
        ELSE p

saturate_index(p, len) ==
    LET ilen == unwrap_or(to_isize(len), ISIZE_MAX)
        p1 == IF p < 0
              THEN (IF wrap(p + ilen) < 0 THEN 0 ELSE wrap(p + ilen))
              ELSE p
    IN  IF p1 > ilen THEN ilen ELSE p1

(***************************************************************************)
(* SaturatedSlice::with_slice and SaturatedSlice::adjust_indices            *)
(***************************************************************************)
SaturatedSlice(a, b, c) == [start |-> a, stop |-> b, step |-> c]
Sat0 == SaturatedSlice(0, 0, 0)

\* the defaults of an absent or None bound
default_start(step) == IF step < 0 THEN ISIZE_MAX ELSE 0
default_stop(step) == IF step < 0 THEN ISIZE_MIN ELSE ISIZE_MAX

with_slice(s) ==
    LET stepR == to_isize_index(step_ref(s))
    IN  IF stepR.err # "" THEN Err(stepR.err, Sat0)
        ELSE
        LET step == unwrap_or(stepR.v, 1)
        IN  IF step = 0 THEN Err(ValueError, Sat0)
            ELSE
            LET startR == to_isize_index(start_ref(s))
            IN  IF startR.err # "" THEN Err(startR.err, Sat0)
                ELSE
                LET stopR == to_isize_index(PySlice_stop(s))
                IN  IF stopR.err # "" THEN Err(stopR.err, Sat0)
                    ELSE Ok(SaturatedSlice(unwrap_or(startR.v, default_start(step)),
                                           unwrap_or(stopR.v, default_stop(step)),
                                           step))

to_saturated(s) == with_slice(s)

\* adjust_endpoints without the special case of a bound equal to -1
adjust_endpoints_plain(ss, len) ==
    IF ss.step < 0
    THEN [start |-> saturating_add(ss.stop, 1),
          stop |-> saturating_add(ss.start, 1),
          step |-> saturating_abs(ss.step),
          neg |-> TRUE]
    ELSE [start |-> ss.start, stop |-> ss.stop, step |-> ss.step, neg |-> FALSE]

\* the (start, stop, step, is_negative_step) adjust_indices clamps
adjust_endpoints(ss, len) ==
    LET ilen == unwrap_or(to_isize(len), ISIZE_MAX)
    IN  IF ss.step < 0
        THEN [start |-> IF ss.stop = -1 THEN saturating_add(ilen, 1)
                        ELSE saturating_add(ss.stop, 1),
              stop |-> IF ss.start = -1 THEN ilen ELSE saturating_add(ss.start, 1),
              step |-> saturating_abs(ss.step),
              neg |-> TRUE]
        ELSE [start |-> ss.start, stop |-> ss.stop, step |-> ss.step, neg |-> FALSE]

Range(a, b) == [start |-> a, end |-> b]

adjust_indices(ss, len) ==
    LET e == adjust_endpoints(ss, len)
        step == to_usize(e.step)
        range == Range(saturate_index(e.start, len), saturate_index(e.stop, len))
        range2 == IF range.start >= range.end
                  THEN Range(range.start, range.start)
                  ELSE IF ~step.some
                       THEN IF e.neg
                            THEN Range(range.end - 1, range.end)
                            ELSE Range(range.start, range.start + 1)
                       ELSE range
    IN  [range |-> range2, step |-> step, neg |-> e.neg]

(***************************************************************************)
(* Comparable for PySlice, Unhashable for PySlice, PySlice::repr            *)
(***************************************************************************)
\* the host's generic comparisons of two field values
Tri(b) == [some |-> TRUE, b |-> b]
Tie == [some |-> FALSE, b |-> FALSE]

\* vm.bool_seq_lt / vm.bool_seq_gt: Some(true) definitely less (greater),
\* Some(false) definitely not, None a tie; values that have no order fail
bool_seq_lt(a, b) ==
    IF a.k = "int" /\ b.k = "int"
    THEN Ok(IF a.n < b.n THEN Tri(TRUE) ELSE IF a.n # b.n THEN Tri(FALSE) ELSE Tie)
    ELSE Err(TypeError, Tie)
bool_seq_gt(a, b) ==
    IF a.k = "int" /\ b.k = "int"
    THEN Ok(IF a.n > b.n THEN Tri(TRUE) ELSE IF a.n # b.n THEN Tri(FALSE) ELSE Tie)
    ELSE Err(TypeError, Tie)
\* vm.identical_or_equal: the same object, or equal by value
identical_or_equal(a, b) == Ok(a = b)
\* vm.to_repr
to_repr(o) == <<o.k, o.n>>

Implemented(b) == [err |-> "", impl |-> TRUE, v |-> b]
NotImplemented == [err |-> "", impl |-> FALSE, v |-> FALSE]
CmpErr(e) == [err |-> e, impl |-> FALSE, v |-> FALSE]
NotASlice == PyBad

\* the chain with a tie that never holds
or_else_chain_strict(r1, r2, r3, dflt) ==
    IF r1.err # "" THEN CmpErr(r1.err)
    ELSE IF r1.v.some THEN Implemented(r1.v.b)
    ELSE IF r2.err # "" THEN CmpErr(r2.err)
    ELSE IF r2.v.some THEN Implemented(r2.v.b)
    ELSE IF r3.err # "" THEN CmpErr(r3.err)
    ELSE IF r3.v.some THEN Implemented(r3.v.b)
    ELSE Implemented(FALSE)

\* None.or_else(f1).or_else(f2).or_else(f3).unwrap_or_else(|| Ok(dflt))?
or_else_chain(r1, r2, r3, dflt) ==
    IF r1.err # "" THEN CmpErr(r1.err)
    ELSE IF r1.v.some THEN Implemented(r1.v.b)
    ELSE IF r2.err # "" THEN CmpErr(r2.err)
    ELSE IF r2.v.some THEN Implemented(r2.v.b)
    ELSE IF r3.err # "" THEN CmpErr(r3.err)
    ELSE IF r3.v.some THEN Implemented(r3.v.b)
    ELSE Implemented(dflt)

cmp(zelf, other, op) ==
    IF other = NotASlice THEN NotImplemented
    ELSE IF op \in {"Lt", "Le"}
    THEN or_else_chain(bool_seq_lt(start_ref(zelf), start_ref(other)),
                       bool_seq_lt(zelf.stop, other.stop),
                       bool_seq_lt(step_ref(zelf), step_ref(other)),
                       op = "Le")
    ELSE IF op \in {"Eq", "Ne"}
    THEN LET eq == /\ identical_or_equal(start_ref(zelf), start_ref(other)).v
                   /\ identical_or_equal(zelf.stop, other.stop).v
                   /\ identical_or_equal(step_ref(zelf), step_ref(other)).v
         IN  Implemented(IF op = "Ne" THEN ~eq ELSE eq)
    ELSE or_else_chain(bool_seq_gt(start_ref(zelf), start_ref(other)),
                       bool_seq_gt(zelf.stop, other.stop),
                       bool_seq_gt(step_ref(zelf), step_ref(other)),
                       op = "Ge")

repr(s) == Ok(<<"slice", to_repr(start_ref(s)), to_repr(s.stop), to_repr(step_ref(s))>>)

\* Unhashable
hash(s) == Err(TypeError, 0)

(***************************************************************************)
(* Enumeration of positions, as the consumers of the two paths walk them.   *)
(***************************************************************************)
RECURSIVE WalkUp(_, _, _)
WalkUp(p, e, k) == IF p < e THEN <<p>> \o WalkUp(p + k, e, k) ELSE <<>>
RECURSIVE WalkDown(_, _, _)
WalkDown(p, e, k) == IF p > e THEN <<p>> \o WalkDown(p - k, e, k) ELSE <<>>

\* s, s+k, s+2k, ... while < e (k > 0) or > e (k < 0)
ExactPositions(t) ==
    IF t[3] > 0 THEN WalkUp(t[1], t[2], t[3]) ELSE WalkDown(t[1], t[2], -t[3])

\* range.start, +magnitude, ... while < range.end (forward);
\* range.end-1, -magnitude, ... while >= range.start (backward)
FastPositions(r) ==
    LET m == IF r.step.some THEN r.step.n ELSE 1
    IN  IF r.neg THEN WalkDown(r.range.end - 1, r.range.start - 1, m)
        ELSE WalkUp(r.range.start, r.range.end, m)

(***************************************************************************)
(* Inputs                                                                   *)
(***************************************************************************)
\* argument tuples of the constructor over a set of values
ArgTuples(V) == {<<>>} \cup {<<b>> : b \in V} \cup (V \X V) \cup (V \X V \X V)
Built(V) == {slot_new(args).v : args \in ArgTuples(V) \ {<<>>}}

\* None and the integers around the machine range
PureVals == {PyNone} \cup {PyInt(n) : n \in (ISIZE_MIN - Over)..(ISIZE_MAX + Over)}

Idle == [op |-> "idle"]

ProtocolIdle ==
    /\ pc = "idle" /\ todo = <<>> /\ log = <<>>
    /\ seqLen = 0 /\ lenSeen = 0 /\ sat = Sat0

(***************************************************************************)
(* SpecPure: the two index computations as functions of a slice of integers *)
(* and a length.                                                            *)
(***************************************************************************)
InitPure ==
    /\ sl \in Built(PureVals)
    /\ out = Idle
    /\ ProtocolIdle

\* slice.indices(L)
PureIndices ==
    /\ out = Idle
    /\ \E L \in 0..ISIZE_MAX :
          out' = [op |-> "indices", len |-> L, res |-> indices(sl, L)]
    /\ UNCHANGED <<sl, pc, todo, log, seqLen, lenSeen, sat>>

\* slice.to_saturated() followed by adjust_indices(len)
PureAdjust ==
    /\ out = Idle
    /\ \E len \in 0..USIZE_MAX :
          LET r == to_saturated(sl)
          IN  out' = [op |-> "adjust", len |-> len, sat |-> r,
                      res |-> adjust_indices(r.v, len)]
    /\ UNCHANGED <<sl, pc, todo, log, seqLen, lenSeen, sat>>

\* the caller takes the result; the next call can start
Return ==
    /\ out # Idle
    /\ out' = Idle
    /\ UNCHANGED <<sl, pc, todo, log, seqLen, lenSeen, sat>>

NextPure == PureIndices \/ PureAdjust \/ Return

SpecPure == InitPure /\ [][NextPure]_vars

IntSlice(s) ==
    /\ start_ref(s).k \in {"none", "int"}
    /\ s.stop.k \in {"none", "int"}
    /\ step_ref(s).k \in {"none", "int"}
    /\ step_ref(s) # PyInt(0)

\* C1: for every length L in 0..isize::MAX and every slice of None/absent or
\* integer bounds (inside or outside the machine range) with step # 0, the walk
\* over indices(L) and the walk over adjust_indices(with_slice(slice), L) visit
\* the same positions in the same order.
C1_SamePositions ==
    (out.op = "adjust" /\ IntSlice(sl) /\ out.len <= ISIZE_MAX)
        => /\ out.sat.err = ""
           /\ indices(sl, out.len).err = ""
           /\ FastPositions(out.res) = ExactPositions(indices(sl, out.len).v)

\* a backward walk over several positions that ends at index 0 has been compared
C1_Witness ==
    /\ out.op = "adjust" /\ IntSlice(sl) /\ out.len = ISIZE_MAX
    /\ sl.stop = PyInt(ISIZE_MIN - 1) /\ step_ref(sl) = PyInt(-1)
    /\ start_ref(sl) = PyInt(-1)
    /\ Len(FastPositions(out.res)) = ISIZE_MAX

Max2(a, b) == IF a >= b THEN a ELSE b
Min2(a, b) == IF a <= b THEN a ELSE b

\* the triple C5 states for a slice of None/absent or integer bounds
C5_Expected(s, L) ==
    LET k == IF step_ref(s) = PyNone THEN 1 ELSE step_ref(s).n
        lower == IF k > 0 THEN 0 ELSE -1
        upper == IF k > 0 THEN L ELSE L - 1
        bound(b) == IF b < 0 THEN Max2(b + L, lower) ELSE Min2(b, upper)
        s0 == IF start_ref(s) = PyNone
              THEN (IF k > 0 THEN lower ELSE upper)
              ELSE bound(start_ref(s).n)
        e0 == IF s.stop = PyNone
              THEN (IF k > 0 THEN upper ELSE lower)
              ELSE bound(s.stop.n)
    IN  <<s0, e0, k>>

\* C5: for every length L >= 0 and every slice of None/absent or integer bounds
\* with step # 0, indices(L) returns exactly (s, e, k): k the step (1 if None),
\* lower/upper = 0/L (k > 0) or -1/L-1 (k < 0), a None start lower (k > 0) or
\* upper (k < 0), a None stop the opposite, an integer b max(b+L, lower) when
\* b < 0 and min(b, upper) otherwise; s and e lie in [lower, upper]; and the four
\* examples of the specification hold.
C5_IndicesExact ==
    /\ (out.op = "indices" /\ IntSlice(sl))
          => /\ out.res = Ok(C5_Expected(sl, out.len))
             /\ LET lower == IF out.res.v[3] > 0 THEN 0 ELSE -1
                    upper == IF out.res.v[3] > 0 THEN out.len ELSE out.len - 1
                IN  /\ out.res.v[1] \in lower..upper
                    /\ out.res.v[2] \in lower..upper
    /\ indices(slot_new(<<PyInt(5)>>).v, 10) = Ok(<<0, 5, 1>>)
    /\ indices(slot_new(<<PyNone, PyNone, PyInt(-1)>>).v, 5) = Ok(<<4, -1, -1>>)
    /\ indices(slot_new(<<PyInt(1), PyInt(10), PyInt(3)>>).v, 5) = Ok(<<1, 5, 3>>)
    /\ indices(slot_new(<<PyInt(-100), PyInt(100), PyInt(1)>>).v, 10) = Ok(<<0, 10, 1>>)

\* indices has clamped a negative start to lower = -1 under a negative step
C5_Witness ==
    /\ out.op = "indices" /\ IntSlice(sl) /\ out.len = 2
    /\ start_ref(sl) = PyInt(ISIZE_MIN) /\ sl.stop = PyNone /\ step_ref(sl) = PyInt(-2)
    /\ out.res = Ok(<<-1, -1, -2>>)

\* C6: saturate_index(p, len) lies in [0, len] for every isize p (isize::MIN and
\* isize::MAX included) and every usize len, and its addition does not overflow;
\* hence the range adjust_indices returns satisfies
\* 0 <= range.start <= range.end <= len.
C6_ClampInRange ==
    (out.op = "adjust" /\ out.sat.err = "")
        => LET e == adjust_endpoints(out.sat.v, out.len)
               ilen == unwrap_or(to_isize(out.len), ISIZE_MAX)
           IN  /\ \A p \in {e.start, e.stop} :
                     /\ p \in ISIZE_MIN..ISIZE_MAX
                     /\ saturate_index(p, out.len) \in 0..out.len
                     /\ (p < 0 => (p + ilen) \in ISIZE_MIN..ISIZE_MAX)
               /\ 0 <= out.res.range.start
               /\ out.res.range.start <= out.res.range.end
               /\ out.res.range.end <= out.len

\* both extremes have been clamped against the largest length
C6_Witness ==
    /\ out.op = "adjust" /\ out.sat.err = "" /\ out.len = USIZE_MAX
    /\ out.sat.v.start = ISIZE_MIN /\ out.sat.v.stop = ISIZE_MAX
    /\ out.sat.v.step = 1
    /\ out.res.range = Range(0, ISIZE_MAX)

\* C10: the branch of adjust_indices for a magnitude that does not fit is never
\* taken: for every resolved (start, stop, step) with step # 0 and every length
\* the magnitude is reported (never none) and is step for step > 0 and
\* min(|step|, isize::MAX) for step < 0, the range is the clamped range (empty
\* when its start is not below its end), and for step = isize::MIN the walk
\* visits at most one position.
C10_NoStepOverflow ==
    (out.op = "adjust" /\ out.sat.err = "")
        => LET ss == out.sat.v
               e == adjust_endpoints(ss, out.len)
               lo == saturate_index(e.start, out.len)
               hi == saturate_index(e.stop, out.len)
           IN  /\ ss.step # 0
               /\ out.res.step.some
               /\ out.res.step.n = IF ss.step > 0 THEN ss.step
                                   ELSE Min2(-ss.step, ISIZE_MAX)
               /\ out.res.range = IF lo >= hi THEN Range(lo, lo) ELSE Range(lo, hi)
               /\ (ss.step = ISIZE_MIN => Len(FastPositions(out.res)) <= 1)

\* step = isize::MIN over a range of more than one element
C10_Witness ==
    /\ out.op = "adjust" /\ out.sat.err = ""
    /\ out.sat.v.step = ISIZE_MIN
    /\ out.res.range.end - out.res.range.start = ISIZE_MAX
    /\ out.res.step = Some(ISIZE_MAX)
    /\ Len(FastPositions(out.res)) = 1

(***************************************************************************)
(* Spec: one slice object, from its construction on, and the operations of  *)
(* its interface, one call at a time.                                       *)
(***************************************************************************)
ObjVals == {PyNone, PyBad, PyIdx(0), PyIdx(1)} \cup {PyInt(n) : n \in -ObjInt..ObjInt}
\* the fields of the slices offered as the other operand of a comparison
CmpVals == {PyNone, PyInt(0), PyInt(1)}
CmpOps == {"Lt", "Le", "Eq", "Ne", "Gt", "Ge"}

Init ==
    /\ sl = NoSlice
    /\ out = Idle
    /\ ProtocolIdle

\* slice(*args)
New ==
    /\ out = Idle /\ sl = NoSlice
    /\ \E args \in ArgTuples(ObjVals) \cup (ObjVals \X ObjVals \X ObjVals \X ObjVals) :
          LET r == slot_new(args)
          IN  /\ sl' = IF r.err = "" THEN r.v ELSE sl
              /\ out' = [op |-> "new", args |-> args, err |-> r.err]
    /\ UNCHANGED <<pc, todo, log, seqLen, lenSeen, sat>>

Called(o) ==
    /\ out = Idle /\ sl # NoSlice
    /\ out' = o
    /\ UNCHANGED <<sl, pc, todo, log, seqLen, lenSeen, sat>>

GetStart == Called([op |-> "start", res |-> PySlice_start(sl)])
GetStop == Called([op |-> "stop", res |-> PySlice_stop(sl)])
GetStep == Called([op |-> "step", res |-> PySlice_step(sl)])
Repr == Called([op |-> "repr", res |-> repr(sl)])
Hash == Called([op |-> "hash", res |-> hash(sl)])
Indices == \E L \in -1..MaxLen : Called([op |-> "indices", len |-> L, res |-> indices(sl, L)])
ToSaturated == Called([op |-> "resolve", res |-> to_saturated(sl)])
\* to_saturated and, when it succeeds, adjust_indices(len)
AdjustIndices ==
    \E len \in 0..MaxLen :
        /\ to_saturated(sl).err = ""
        /\ Called([op |-> "adjust", len |-> len,
                   res |-> adjust_indices(to_saturated(sl).v, len)])
Compare ==
    \E op \in CmpOps, other \in Built(CmpVals) \cup {NotASlice} :
        Called([op |-> "cmp", cop |-> op, other |-> other, res |-> cmp(sl, other, op)])

Next ==
    \/ New
    \/ GetStart
    \/ GetStop
    \/ GetStep
    \/ Repr
    \/ Hash
    \/ Indices
    \/ ToSaturated
    \/ AdjustIndices
    \/ Compare
    \/ Return

Spec == Init /\ [][Next]_vars

\* the error kinds of the specification, as the code raises them: step = 0 and
\* a negative length raise a value error, a failed coercion a type error
InvalidArgument == ValueError
TypeConversion == TypeError

\* the step, coerced to an index, is 0
StepResolvesToZero(s) == to_index_opt(step_ref(s)) = Some(0)

\* C4: a slice whose step resolves to 0 fails with InvalidArgument in indices(L)
\* for every L >= 0 and in resolve, whatever start and stop are (values that
\* cannot be coerced included), and no triple is produced.
C4_ZeroStepFails ==
    (sl # NoSlice /\ StepResolvesToZero(sl))
        => /\ (out.op = "indices" /\ out.len >= 0) => out.res.err = InvalidArgument
           /\ out.op = "resolve" => out.res.err = InvalidArgument

\* the part of C4 the code keeps: an integer step of 0
C4_IntZeroStepFails ==
    (sl # NoSlice /\ step_ref(sl) = PyInt(0))
        => /\ (out.op = "indices" /\ out.len >= 0) => out.res.err = InvalidArgument
           /\ out.op = "resolve" => out.res.err = InvalidArgument

\* slices that differ from s only in a start or step absent in one and None in
\* the other, and that the constructor can build
SwapAbsent(o) == IF o = Absent THEN {Absent, PyNone} ELSE IF o = PyNone THEN {PyNone, Absent} ELSE {o}
Twins(s) ==
    {t \in {PySlice(a, s.stop, c) : a \in SwapAbsent(s.start), c \in SwapAbsent(s.step)} :
        t # s /\ (t.start = Absent => t.step = Absent)}

\* the outcome of the operation recorded in o, on slice s
Outcome(o, s) ==
    CASE o.op = "start" -> PySlice_start(s)
      [] o.op = "stop" -> PySlice_stop(s)
      [] o.op = "step" -> PySlice_step(s)
      [] o.op = "repr" -> repr(s)
      [] o.op = "hash" -> hash(s)
      [] o.op = "indices" -> indices(s, o.len)
      [] o.op = "resolve" -> to_saturated(s)
      [] o.op = "adjust" -> adjust_indices(to_saturated(s).v, o.len)
      [] o.op = "cmp" -> cmp(s, o.other, o.cop)

\* C7: omission and explicit None cannot be told apart: on two slices that
\* differ only in a start or step absent in one and None in the other, the
\* accessors, repr, indices(L), resolve, adjust and the six comparisons against a third
\* slice (on either side) give the same outcome, and the two compare equal.
C7_AbsentIsNone ==
    (sl # NoSlice /\ out.op \notin {"idle", "new"})
        => /\ \A t \in Twins(sl) :
                 /\ Outcome(out, t) = out.res
                 /\ cmp(sl, t, "Eq") = Implemented(TRUE)
                 /\ cmp(sl, t, "Ne") = Implemented(FALSE)
                 /\ (out.op = "cmp" /\ out.other # NotASlice)
                       => cmp(out.other, t, out.cop) = cmp(out.other, sl, out.cop)
           /\ (out.op = "cmp" /\ out.other # NotASlice)
                 => \A u \in Twins(out.other) : cmp(sl, u, out.cop) = out.res

\* slice(5) has been compared equal to slice(None, 5), which is its twin
C7_Witness ==
    /\ sl = PySlice(Absent, PyInt(1), Absent)
    /\ out.op = "cmp" /\ out.cop = "Eq"
    /\ out.other = PySlice(PyNone, PyInt(1), Absent)
    /\ out.other \in Twins(sl)
    /\ out.res = Implemented(TRUE)

IntFields(s) == start_ref(s).k = "int" /\ s.stop.k = "int" /\ step_ref(s).k = "int"
Fields(s) == <<start_ref(s), s.stop, step_ref(s)>>
Slice3(a, b, c) == slot_new(<<PyInt(a), PyInt(b), PyInt(c)>>).v

\* C8: <, <=, >, >= compare (start, stop, step) lexicographically: the first
\* field that is definitely less or greater decides, whatever the later fields
\* are, and three ties give true for <= and >= and false for < and >.  With
\* integer fields exactly one of a < b, a == b, a > b holds, a <= b iff
\* (a < b or a == b), and a < b iff b > a.
C8_Lexicographic ==
    /\ (out.op = "cmp" /\ out.other # NotASlice)
          => LET a == Fields(sl)
                 b == Fields(out.other)
                 tie(j) == a[j].k = "int" /\ b[j].k = "int" /\ a[j].n = b[j].n
                 definite(j) == a[j].k = "int" /\ b[j].k = "int" /\ a[j].n # b[j].n
             IN  /\ out.cop \in {"Lt", "Le"} =>
                       /\ \A i \in 1..3 :
                             ((\A j \in 1..(i - 1) : tie(j)) /\ definite(i))
                                => out.res = Implemented(a[i].n < b[i].n)
                       /\ (\A j \in 1..3 : tie(j)) => out.res = Implemented(out.cop = "Le")
                 /\ out.cop \in {"Gt", "Ge"} =>
                       /\ \A i \in 1..3 :
                             ((\A j \in 1..(i - 1) : tie(j)) /\ definite(i))
                                => out.res = Implemented(a[i].n > b[i].n)
                       /\ (\A j \in 1..3 : tie(j)) => out.res = Implemented(out.cop = "Ge")
                 /\ (IntFields(sl) /\ IntFields(out.other)) =>
                       LET lt == cmp(sl, out.other, "Lt").v
                           eq == cmp(sl, out.other, "Eq").v
                           gt == cmp(sl, out.other, "Gt").v
                       IN  /\ out.res.err = "" /\ out.res.impl
                           /\ Cardinality({x \in {"lt", "eq", "gt"} :
                                 \/ x = "lt" /\ lt
                                 \/ x = "eq" /\ eq
                                 \/ x = "gt" /\ gt}) = 1
                           /\ cmp(sl, out.other, "Le").v = (lt \/ eq)
                           /\ cmp(sl, out.other, "Ge").v = (gt \/ eq)
                           /\ lt = cmp(out.other, sl, "Gt").v
    /\ cmp(Slice3(1, 2, 3), Slice3(1, 2, 4), "Lt") = Implemented(TRUE)
    /\ cmp(Slice3(1, 2, 3), Slice3(1, 2, 3), "Lt") = Implemented(FALSE)
    /\ cmp(Slice3(1, 2, 3), Slice3(1, 2, 3), "Le") = Implemented(TRUE)

\* a <= of two slices whose three integer fields tie
C8_Witness ==
    /\ out.op = "cmp" /\ out.cop = "Le"
    /\ IntFields(sl) /\ out.other # NotASlice
    /\ Fields(sl) = Fields(out.other)
    /\ out.res = Implemented(TRUE)

\* a < decided by the start although the stop of the slice has no order
C8_WitnessEarly ==
    /\ out.op = "cmp" /\ out.cop = "Lt"
    /\ sl = PySlice(PyInt(-1), PyBad, Absent)
    /\ out.res = Implemented(TRUE)

\* what construction gives for 1, 2 and 3 arguments, and that stop is never absent
C9_Shape ==
    /\ out.op = "new" =>
          /\ Len(out.args) = 1 => sl = PySlice(Absent, out.args[1], Absent)
          /\ Len(out.args) = 2 => sl = PySlice(out.args[1], out.args[2], Absent)
          /\ Len(out.args) = 3 => sl = PySlice(out.args[1], out.args[2], out.args[3])
          /\ Len(out.args) \in 1..3 => out.err = ""
          /\ Len(out.args) \in 2..3 => sl.start # Absent
          /\ Len(out.args) = 3 => sl.step # Absent
          /\ Len(out.args) \notin 1..3 => (out.err # "" /\ sl = NoSlice)
    /\ sl # NoSlice => sl.stop # Absent

\* no operation changes the fields of a constructed slice
C9_Immutable == (sl # NoSlice) => (sl' = sl)

C9_WitnessBuilt ==
    /\ sl = PySlice(Absent, PyInt(1), Absent)
    /\ out.op = "indices" /\ out.len = 2 /\ out.res = Ok(<<0, 1, 1>>)

BoundNames == <<"step", "start", "stop">>

\* the value each phase looks at for a bound
bound_ref(s, b) ==
    IF b = "step" THEN step_ref(s) ELSE IF b = "start" THEN start_ref(s) ELSE PySlice_stop(s)

\* whether to_isize_index reaches vm.to_index_opt
calls_index(o) == ~is_none(o)

\* a resolve that leaves stop to the adjustment
CoercedBy_lazy(phase) ==
    IF phase = "resolve" THEN <<"step", "start">> ELSE <<"stop">>

\* a resolve that coerces in field order
CoercedBy_fieldorder(phase) ==
    IF phase = "resolve" THEN <<"start", "stop", "step">> ELSE <<>>

\* the bounds each phase coerces, in the order it coerces them: with_slice all
\* three, adjust_indices (which is given no vm) none
CoercedBy(phase) ==
    IF phase = "resolve" THEN <<"step", "start", "stop">> ELSE <<>>

Event(e, b, n) == [ev |-> e, b |-> b, len |-> n]

InitFast ==
    /\ sl \in Built(ObjVals)
    /\ seqLen \in 0..MaxSeq
    /\ pc = "idle" /\ todo = <<>> /\ log = <<>>
    /\ lenSeen = 0 /\ sat = Sat0 /\ out = Idle

\* slice.to_saturated(vm) is entered
BeginResolve ==
    /\ pc = "idle"
    /\ pc' = "resolving"
    /\ todo' = CoercedBy("resolve")
    /\ UNCHANGED <<sl, out, log, seqLen, lenSeen, sat>>

\* one to_isize_index call, with what with_slice does with its result
Coerce ==
    /\ pc \in {"resolving", "adjusting"}
    /\ todo # <<>>
    /\ LET b == Head(todo)
           o == bound_ref(sl, b)
           r == to_isize_index(o)
       IN  /\ \E n \in 0..MaxSeq :
                 /\ (o.k # "idx") => n = seqLen
                 /\ seqLen' = n
                 /\ log' = IF calls_index(o) THEN Append(log, Event("index", b, n)) ELSE log
           /\ IF r.err # ""
              THEN /\ pc' = "failed" /\ todo' = <<>> /\ sat' = sat
                   /\ out' = [op |-> "resolve", res |-> Err(r.err, Sat0)]
              ELSE IF b = "step" /\ unwrap_or(r.v, 1) = 0
              THEN /\ pc' = "failed" /\ todo' = <<>> /\ sat' = sat
                   /\ out' = [op |-> "resolve", res |-> Err(ValueError, Sat0)]
              ELSE /\ pc' = pc /\ todo' = Tail(todo) /\ out' = out
                   /\ sat' = IF b = "step" THEN [sat EXCEPT !.step = unwrap_or(r.v, 1)]
                             ELSE IF b = "start"
                             THEN [sat EXCEPT !.start = unwrap_or(r.v, default_start(sat.step))]
                             ELSE [sat EXCEPT !.stop = unwrap_or(r.v, default_stop(sat.step))]
    /\ UNCHANGED <<sl, lenSeen>>

\* with_slice returns Ok(Self { start, stop, step })
EndResolve ==
    /\ pc = "resolving" /\ todo = <<>>
    /\ pc' = "resolved"
    /\ UNCHANGED <<sl, out, todo, log, seqLen, lenSeen, sat>>

\* the caller takes the sequence and reads its length
ReadLen ==
    /\ pc = "resolved"
    /\ lenSeen' = seqLen
    /\ log' = Append(log, Event("len", "", seqLen))
    /\ pc' = "measured"
    /\ UNCHANGED <<sl, out, todo, seqLen, sat>>

\* adjust_indices(len) is entered
BeginAdjust ==
    /\ pc = "measured"
    /\ pc' = "adjusting"
    /\ todo' = CoercedBy("adjust")
    /\ UNCHANGED <<sl, out, log, seqLen, lenSeen, sat>>

\* adjust_indices returns
EndAdjust ==
    /\ pc = "adjusting" /\ todo = <<>>
    /\ out' = [op |-> "adjust", res |-> adjust_indices(sat, lenSeen)]
    /\ pc' = "done"
    /\ UNCHANGED <<sl, todo, log, seqLen, lenSeen, sat>>

NextFast ==
    \/ BeginResolve
    \/ Coerce
    \/ EndResolve
    \/ ReadLen
    \/ BeginAdjust
    \/ EndAdjust

SpecFast == InitFast /\ [][NextFast]_vars

\* the stepwise run computes what with_slice computes
FastAgrees ==
    /\ pc = "resolved" => Ok(sat) = with_slice(sl)
    /\ pc = "failed" => out.res = with_slice(sl)

\* the bounds the callback was invoked on, in the order of the invocations
RECURSIVE Invoked(_)
Invoked(l) ==
    IF l = <<>> THEN <<>>
    ELSE IF Head(l).ev = "index" THEN <<Head(l).b>> \o Invoked(Tail(l))
    ELSE Invoked(Tail(l))

Count(b) == Cardinality({i \in 1..Len(log) : log[i].ev = "index" /\ log[i].b = b})
Rank(b) == IF b = "step" THEN 1 ELSE IF b = "start" THEN 2 ELSE 3
InOrder == \A i, j \in 1..Len(Invoked(log)) :
              i < j => Rank(Invoked(log)[i]) < Rank(Invoked(log)[j])
Stored(s, b) == IF b = "step" THEN s.step ELSE IF b = "start" THEN s.start ELSE s.stop
Names == {"step", "start", "stop"}

\* C2: in every run of resolve, length read, adjust, the callbacks all happen
\* before the length is read: resolve has finished them when it returns and its
\* result depends on the slice alone, adjust invokes none, so nothing changes
\* the sequence between the length read and the end of adjust, and the length
\* adjust uses is the length of the sequence after all callbacks.
C2_CallbacksBeforeLength ==
    /\ \A i, j \in 1..Len(log) : (i < j /\ log[i].ev = "len") => log[j].ev # "index"
    /\ pc = "resolved" =>
          /\ todo = <<>>
          /\ Ok(sat) = with_slice(sl)
          /\ \A b \in Names : calls_index(bound_ref(sl, b)) => Count(b) = 1
    /\ pc \in {"measured", "adjusting", "done"} =>
          /\ lenSeen = seqLen
          /\ log[Len(log)] = Event("len", "", seqLen)
          /\ \A i \in 1..Len(log) : log[i].ev = "index" => i < Len(log)
    /\ pc = "done" =>
          /\ out.res = adjust_indices(sat, seqLen)
          /\ out.res.range.end <= seqLen

\* a run is over in which two callbacks changed the length of the sequence and
\* adjust used the last one
C2_Witness ==
    /\ pc = "done"
    /\ Len(log) = 4
    /\ log[1].ev = "index" /\ log[2].ev = "index" /\ log[3].ev = "index"
    /\ log[1].len # log[2].len /\ log[2].len # log[3].len
    /\ log[4] = Event("len", "", log[3].len)
    /\ out.res.range.end = seqLen /\ seqLen = MaxSeq

\* C3 as the specification states it, for a resolve that returns a result: the
\* callback is invoked exactly once on each Present bound, never on an Absent
\* one, never twice, in the order step, start, stop.
C3_Original ==
    pc = "resolved" =>
        /\ \A b \in Names :
              /\ Stored(sl, b) # Absent => Count(b) = 1
              /\ Stored(sl, b) = Absent => Count(b) = 0
        /\ InOrder

\* C3 as the code has it: during one resolve the callback is invoked at most
\* once on any bound and never on a bound that is absent or None, in the order
\* step, start, stop; a resolve that returns a result has invoked it exactly
\* once on every bound that is neither absent nor None; a resolve that fails
\* invokes it on no bound after the one that failed.
C3_OncePerBound ==
    /\ \A b \in Names :
          /\ Count(b) <= 1
          /\ is_none(bound_ref(sl, b)) => Count(b) = 0
    /\ InOrder
    /\ pc = "resolved" =>
          \A b \in Names : ~is_none(bound_ref(sl, b)) => Count(b) = 1
    /\ (pc = "failed" /\ out.res.err = TypeError) =>
          /\ Len(Invoked(log)) >= 1
          /\ to_index_opt(bound_ref(sl, Invoked(log)[Len(Invoked(log))])) = Nothing
    /\ (pc = "failed" /\ out.res.err = ValueError) =>
          (Count("start") = 0 /\ Count("stop") = 0)

\* a resolve has returned after three invocations, one on each bound
C3_WitnessAll ==
    /\ pc = "resolved"
    /\ Invoked(log) = BoundNames
    /\ sl.step.k = "idx" /\ sl.start.k = "int" /\ sl.stop.k = "idx"

\* a resolve has returned without an invocation on its stop, which is None
C3_Witness ==
    /\ pc = "resolved"
    /\ sl.stop = PyNone /\ sl.start = PyInt(1) /\ sl.step = Absent
    /\ Invoked(log) = <<"start">>

====
